---- MODULE Spec2Model ----
(***************************************************************************)
(* A model of pyrqlite's Cursor (src/pyrqlite/cursors.py): the DB-API      *)
(* cursor that turns execute/executemany into one HTTP request against     *)
(* rqlite and exposes the decoded JSON response through fetchone,          *)
(* fetchall and iteration.                                                 *)
(*                                                                         *)
(* Python values are modelled as follows.                                  *)
(*   - a str is a sequence of one-character strings;                       *)
(*   - None is <<>> and a non-None optional attribute x is <<x>>;          *)
(*   - a dict decoded from JSON is a record whose DOMAIN is its key set,   *)
(*     so  'k' in d  is  "k" \in DOMAIN d  and a KeyError is its negation; *)
(*   - an argument whose Python type matters is a pair <<type, text>>.     *)
(***************************************************************************)
EXTENDS Integers, Sequences, FiniteSets, TLC

VARIABLES
    rows,        \* self._rows: None, or the list of materialized rows
    rownumber,   \* self.rownumber
    rowcount,    \* self.rowcount
    description, \* self.description: None, or the tuple of 7-tuples
    lastrowid,   \* self.lastrowid: None, or the id
    sent,        \* the HTTP requests issued by the most recent call
    call,        \* the most recent call: its name, arguments and response
    ret,         \* how the most recent call ended: value returned or raised
    pc,          \* "idle", or "fetchall" while fetchall's loop is running
    out,         \* fetchall's local list `rows`
    returned,    \* values handed out by fetchone since _rows was last set
    connection   \* self._connection: the connection the cursor was made on

vars == <<rows, rownumber, rowcount, description, lastrowid,
          sent, call, ret, pc, out, returned, connection>>

cursor == <<rows, rownumber, rowcount, description, lastrowid>>

\* ------------------------------------------------------------------ bounds
MaxItems == 2   \* result items in one response
MaxParams == 2  \* parameters in one parameter sequence
MaxBatch == 2   \* parameter sequences in one executemany
MaxFetch == 3   \* fetch-one steps followed after one execute

\* ------------------------------------------------------------ Python values
None == <<>>
Some(x) == <<x>>

PyStr(s) == <<"str", s>>
PyInt(digits) == <<"int", digits>>
PyNone == <<"NoneType", <<>>>>
PyTuple(elems) == <<"tuple", elems>>

\* isinstance(operation, basestring)
IsString(v) == v[1] = "str"

\* Python truthiness of the `parameters` argument (None and () are falsy)
Truthy(v) == v[1] = "tuple" /\ Len(v[2]) > 0

Min(a, b) == IF a <= b THEN a ELSE b

RECURSIVE Concat(_)
\* ''.join(list)
Concat(list) == IF list = <<>> THEN <<>> ELSE Head(list) \o Concat(Tail(list))

\* ------------------------------------------------------------------- text
Whitespace == {" ", "\t", "\n"}

LowerCase == <<"a","b","c","d","e","f","g","h","i","j","k","l","m",
               "n","o","p","q","r","s","t","u","v","w","x","y","z">>
UpperCase == <<"A","B","C","D","E","F","G","H","I","J","K","L","M",
               "N","O","P","Q","R","S","T","U","V","W","X","Y","Z">>

UpperOf ==
    [c \in {LowerCase[i] : i \in 1..26} |->
        UpperCase[CHOOSE i \in 1..26 : LowerCase[i] = c]]

UpperChar(c) == IF c \in DOMAIN UpperOf THEN UpperOf[c] ELSE c

\* str.upper()
upper(s) == [i \in 1..Len(s) |-> UpperChar(s[i])]

RECURSIVE SplitOn(_, _, _)
\* str.split(sep) for a one-character sep: `cur` is the part being read
SplitOn(s, sep, cur) ==
    IF s = <<>> THEN <<cur>>
    ELSE IF Head(s) = sep THEN <<cur>> \o SplitOn(Tail(s), sep, <<>>)
    ELSE SplitOn(Tail(s), sep, Append(cur, Head(s)))

RECURSIVE LStrip(_)
LStrip(s) == IF s # <<>> /\ Head(s) \in Whitespace THEN LStrip(Tail(s)) ELSE s

RECURSIVE TakeWord(_)
TakeWord(s) ==
    IF s = <<>> \/ Head(s) \in Whitespace THEN <<>>
    ELSE <<Head(s)>> \o TakeWord(Tail(s))

\* str.split(None, 1): at most one split, on a run of whitespace, leading
\* whitespace dropped; the list is empty when the text has no word
SplitWs1(s) ==
    LET t == LStrip(s)
        w == TakeWord(t)
        r == LStrip(SubSeq(t, Len(w) + 1, Len(t)))
    IN  IF t = <<>> THEN <<>>
        ELSE IF r = <<>> THEN <<w>>
        ELSE <<w, r>>

\* ------------------------------------------------- parameter substitution
\* extensions._adapt_from_python: the SQL literal of a native value
\* (integer: its digits; text: quoted, each quote doubled; None: NULL)
_adapt_from_python(v) ==
    CASE v[1] = "int" -> v[2]
      [] v[1] = "str" ->
            <<"'">> \o Concat([i \in 1..Len(v[2]) |->
                IF v[2][i] = "'" THEN <<"'", "'">> ELSE <<v[2][i]>>]) \o <<"'">>
      [] OTHER -> <<"N", "U", "L", "L">>

\* parts = operation.split('?')
Parts(operation) == SplitOn(operation, "?", <<>>)

\* the guard of _substitute_params: len(parts) - 1 != len(parameters)
ParamMismatch(operation, parameters) ==
    Len(Parts(operation)) - 1 # Len(parameters)

\* a substitution that takes the parameters from the last to the first
Subst_Reversed(parts, parameters) ==
    [k \in 1..Len(parts) |->
        IF k <= Len(parameters)
        THEN parts[k] \o _adapt_from_python(parameters[Len(parameters) + 1 - k])
        ELSE parts[k]]

\* the list `subst` built by the loop over enumerate(parts): Python's i is
\* k - 1, so `i < len(parameters)` reads k <= Len(parameters)
Subst(parts, parameters) ==
    [k \in 1..Len(parts) |->
        IF k <= Len(parameters)
        THEN parts[k] \o _adapt_from_python(parameters[k])
        ELSE parts[k]]

\* _substitute_params when it does not raise: ''.join(subst)
_substitute_params(operation, parameters) ==
    Concat(Subst(Parts(operation), parameters))

\* _get_sql_command: sql_str.split(None, 1)[0].upper(); the subscript raises
\* IndexError on a text without any word (see NoWord)
_get_sql_command(sql_str) == upper(SplitWs1(sql_str)[1])

NoWord(sql_str) == SplitWs1(sql_str) = <<>>

\* ---------------------------------------------------------------- requests
Unreserved ==
    {LowerCase[i] : i \in 1..26} \cup {UpperCase[i] : i \in 1..26}
    \cup {"0","1","2","3","4","5","6","7","8","9","_",".","-","~"}

\* urllib's quote_plus on one character of the texts used here
QuotePlus(c) ==
    CASE c \in Unreserved -> <<c>>
      [] c = " "  -> <<"+">>
      [] c = "?"  -> <<"%", "3", "F">>
      [] c = "'"  -> <<"%", "2", "7">>
      [] c = "\t" -> <<"%", "0", "9">>
      [] c = "\n" -> <<"%", "0", "A">>
      [] c = ","  -> <<"%", "2", "C">>
      [] c = "="  -> <<"%", "3", "D">>
      [] c = "("  -> <<"%", "2", "8">>
      [] c = ")"  -> <<"%", "2", "9">>
      [] c = "*"  -> <<"%", "2", "A">>

\* _urlencode({'q': operation})
_urlencode(operation) ==
    <<"q", "=">> \o Concat([i \in 1..Len(operation) |-> QuotePlus(operation[i])])

\* json.dumps of one str
JsonString(s) ==
    <<"\"">> \o Concat([i \in 1..Len(s) |->
        CASE s[i] = "\"" -> <<"\\", "\"">>
          [] s[i] = "\\" -> <<"\\", "\\">>
          [] s[i] = "\n" -> <<"\\", "n">>
          [] s[i] = "\t" -> <<"\\", "t">>
          [] OTHER -> <<s[i]>>]) \o <<"\"">>

\* json.dumps of a list of str: "[" + ", ".join(items) + "]"
JsonDumps(list) ==
    <<"[">> \o Concat([i \in 1..Len(list) |->
        (IF i > 1 THEN <<",", " ">> ELSE <<>>) \o JsonString(list[i])]) \o <<"]">>

NoHeaders == <<>>
JsonHeaders == <<<<"Content-Type", "application/json">>>>

\* the request execute hands to _request for a read
QueryRequest(operation) ==
    [method |-> "GET", path |-> "/db/query?", query |-> _urlencode(operation),
     body |-> None, headers |-> NoHeaders]

\* the request execute and executemany hand to _request for a write
ExecuteRequest(statements) ==
    [method |-> "POST", path |-> "/db/execute?transaction", query |-> <<>>,
     body |-> Some(JsonDumps(statements)), headers |-> JsonHeaders]

\* execute's choice of request from the command keyword
DispatchRequest(command, operation) ==
    IF command \in {<<"S","E","L","E","C","T">>, <<"P","R","A","G","M","A">>}
    THEN QueryRequest(operation)
    ELSE ExecuteRequest(<<operation>>)

\* ------------------------------------------------- response interpretation
\* connection.parse_decltypes and connection.parse_colnames (detect_types off)
parse_decltypes == FALSE
parse_colnames == FALSE

\* extensions._column_stripper: the column name without a "[type]" suffix
\* when parse_colnames is set; the names used here carry no suffix
_column_stripper(field, colnames) == field

\* extensions._convert_to_python: the converter of a column, None when the
\* flags ask for no conversion
_convert_to_python(field, type_, decltypes, colnames) ==
    IF decltypes /\ type_ = "integer" THEN Some("int") ELSE None

\* value if converter is None else converter(value)
Converted(converter, value) == value

\* execute's locals before the loop over the result items
ExecuteLocals0 ==
    [rows_affected |-> -1, last_insert_id |-> None, payload_rows |-> None,
     raised |-> None]

\* a loop body that, like executemany's, only logs an error item
ExecuteItem_LogOnly(acc, item) ==
    [rows_affected |->
         IF "rows_affected" \in DOMAIN item
         THEN acc.rows_affected + item.rows_affected
         ELSE acc.rows_affected,
     last_insert_id |->
         IF "last_insert_id" \in DOMAIN item
         THEN Some(item.last_insert_id)
         ELSE acc.last_insert_id,
     payload_rows |->
         IF "columns" \in DOMAIN item THEN Some(item) ELSE acc.payload_rows,
     raised |-> None]

\* one pass of execute's loop body over `item`; `raised` holds the item whose
\* JSON the Error carries once the body has raised
ExecuteItem(acc, item) ==
    IF "error" \in DOMAIN item
    THEN [acc EXCEPT !.raised = Some(item)]
    ELSE [rows_affected |->
              IF "rows_affected" \in DOMAIN item
              THEN acc.rows_affected + item.rows_affected
              ELSE acc.rows_affected,
          last_insert_id |->
              IF "last_insert_id" \in DOMAIN item
              THEN Some(item.last_insert_id)
              ELSE acc.last_insert_id,
          payload_rows |->
              IF "columns" \in DOMAIN item THEN Some(item) ELSE acc.payload_rows,
          raised |-> None]

RECURSIVE ExecuteLoop(_, _)
\* for item in results: ... ; a raise leaves the loop
ExecuteLoop(results, acc) ==
    IF results = <<>> \/ acc.raised # None THEN acc
    ELSE ExecuteLoop(Tail(results), ExecuteItem(acc, Head(results)))

\* execute's locals after the try/except KeyError/else over payload["results"]
ExecuteLocals(payload) ==
    IF "results" \notin DOMAIN payload THEN ExecuteLocals0
    ELSE ExecuteLoop(payload.results, [ExecuteLocals0 EXCEPT !.rows_affected = 0])

\* a loop body that leaves an error item out of the sum
ManyItem_SkipErrors(rows_affected, item) ==
    IF "rows_affected" \in DOMAIN item /\ "error" \notin DOMAIN item
    THEN rows_affected + item.rows_affected
    ELSE rows_affected

\* one pass of executemany's loop body: an error item is only logged
ManyItem(rows_affected, item) ==
    IF "rows_affected" \in DOMAIN item
    THEN rows_affected + item.rows_affected
    ELSE rows_affected

RECURSIVE ManyLoop(_, _)
ManyLoop(results, rows_affected) ==
    IF results = <<>> THEN rows_affected
    ELSE ManyLoop(Tail(results), ManyItem(rows_affected, Head(results)))

\* executemany's rows_affected after the try/except KeyError/else
ManyRowsAffected(payload) ==
    IF "results" \notin DOMAIN payload THEN -1
    ELSE ManyLoop(payload.results, 0)

\* the description built from payload_rows['columns']
Description(fields) ==
    [i \in 1..Len(fields) |->
        <<_column_stripper(fields[i], parse_colnames),
          None, None, None, None, None, None>>]

\* one Row: zip(fields, converters, payload_row) stops at the shortest
MakeRow(fields, converters, payload_row) ==
    [i \in 1..Min(Len(fields), Min(Len(converters), Len(payload_row))) |->
        <<fields[i], Converted(converters[i], payload_row[i])>>]

\* a materialization that needs no types: columns without a type get no
\* converter
Materialize_WithoutTypes(item) ==
    LET fields == item.columns IN
    IF "values" \in DOMAIN item
    THEN [r \in 1..Len(item.values) |->
             MakeRow(fields, [i \in 1..Len(fields) |-> None], item.values[r])]
    ELSE <<>>

\* the list `rows` built from the result item that carries columns: empty
\* unless the item has both values and types and values is not empty
Materialize(item) ==
    LET fields == item.columns IN
    IF "values" \in DOMAIN item /\ "types" \in DOMAIN item /\ item.values # <<>>
    THEN LET converters ==
                 [i \in 1..Min(Len(fields), Len(item.types)) |->
                     _convert_to_python(fields[i], item.types[i],
                                        parse_decltypes, parse_colnames)]
         IN  [r \in 1..Len(item.values) |->
                 MakeRow(fields, converters, item.values[r])]
    ELSE <<>>

\* a row count that ignores the command keyword
RowCountPolicy_AlwaysLen(command, rows_affected, newrows) == Len(newrows)

\* the row count execute publishes
RowCountPolicy(command, rows_affected, newrows) ==
    IF command = <<"U","P","D","A","T","E">> THEN rows_affected ELSE Len(newrows)

\* the lastrowid execute leaves: assigned only on the branch without columns
\* and only for INSERT
LastRowIdPolicy(command, locals, old) ==
    IF locals.payload_rows = None /\ command = <<"I","N","S","E","R","T">>
    THEN locals.last_insert_id
    ELSE old

\* ----------------------------------------------------------------- outcomes
Return(type, value) == [kind |-> "return", type |-> type, value |-> value]
Raise(type, value) == [kind |-> "raise", type |-> type, value |-> value]

\* a response whose delivery failed: _fetch_response or json.loads raised
Failed(payload) == "exception" \in DOMAIN payload

\* --------------------------------------------------------------- the cursor
\* Cursor.__init__
Init ==
    /\ rows = None
    /\ rownumber = 0
    /\ rowcount = -1
    /\ description = None
    /\ lastrowid = None
    /\ sent = <<>>
    /\ call = [name |-> "__init__"]
    /\ ret = Return("None", None)
    /\ pc = "idle"
    /\ out = <<>>
    /\ returned = <<>>
    /\ connection = "connection"

\* a call that rewinds the traversal before it raises
Rejected_Rewinds(c, requests, exc) ==
    /\ call' = c
    /\ sent' = requests
    /\ ret' = exc
    /\ rownumber' = 0
    /\ UNCHANGED <<rows, rowcount, description, lastrowid, pc, out, returned, connection>>

\* a call that raises before it assigns any attribute
Rejected(c, requests, exc) ==
    /\ call' = c
    /\ sent' = requests
    /\ ret' = exc
    /\ UNCHANGED <<cursor, pc, out, returned, connection>>

\* Cursor.execute(operation, parameters); `responses` are the decoded
\* responses _request may return for the request
execute(operation, parameters, responses) ==
    /\ pc = "idle"
    /\ LET c == [name |-> "execute", operation |-> operation,
                 parameters |-> parameters, payload |-> None]
       IN
       IF ~IsString(operation)
       THEN Rejected(c, <<>>, Raise("ValueError", operation[1]))
       ELSE IF Truthy(parameters) /\ ParamMismatch(operation[2], parameters[2])
       THEN Rejected(c, <<>>, Raise("ProgrammingError", "incorrect number of parameters"))
       ELSE
       LET sql == IF Truthy(parameters)
                  THEN _substitute_params(operation[2], parameters[2])
                  ELSE operation[2]
       IN
       IF NoWord(sql)
       THEN Rejected(c, <<>>, Raise("IndexError", "list index out of range"))
       ELSE
       LET command == _get_sql_command(sql)
           request == DispatchRequest(command, sql)
       IN
       \E payload \in responses :
       LET cs == [c EXCEPT !.payload = Some(payload)] IN
       IF Failed(payload)
       THEN Rejected(cs, <<request>>, Raise(payload.exception, "request"))
       ELSE
       LET locals == ExecuteLocals(payload) IN
       IF locals.raised # None
       THEN Rejected(cs, <<request>>, Raise("Error", locals.raised))
       ELSE
       LET newrows == IF locals.payload_rows = None THEN <<>>
                      ELSE Materialize(locals.payload_rows[1])
       IN
       /\ call' = cs
       /\ sent' = <<request>>
       /\ description' = IF locals.payload_rows = None THEN None
                         ELSE Some(Description(locals.payload_rows[1].columns))
       /\ rows' = Some(newrows)
       /\ lastrowid' = LastRowIdPolicy(command, locals, lastrowid)
       /\ rownumber' = 0
       /\ rowcount' = RowCountPolicy(command, locals.rows_affected, newrows)
       /\ ret' = Return("self", None)
       /\ returned' = <<>>
       /\ UNCHANGED <<pc, out, connection>>

\* the first parameter sequence _substitute_params rejects, 0 when none
FirstMismatch(operation, seq) ==
    IF \E k \in 1..Len(seq) : ParamMismatch(operation, seq[k][2])
    THEN CHOOSE k \in 1..Len(seq) :
            /\ ParamMismatch(operation, seq[k][2])
            /\ \A j \in 1..(k - 1) : ~ParamMismatch(operation, seq[j][2])
    ELSE 0

\* Cursor.executemany(operation, seq_of_parameters)
executemany(operation, seq_of_parameters, responses) ==
    /\ pc = "idle"
    /\ LET c == [name |-> "executemany", operation |-> operation,
                 parameters |-> seq_of_parameters, payload |-> None]
       IN
       IF ~IsString(operation)
       THEN Rejected(c, <<>>, Raise("ValueError", operation[1]))
       ELSE IF seq_of_parameters[1] # "tuple"
       THEN Rejected(c, <<>>, Raise("TypeError", "object is not iterable"))
       ELSE IF FirstMismatch(operation[2], seq_of_parameters[2]) # 0
       THEN Rejected(c, <<>>, Raise("ProgrammingError", "incorrect number of parameters"))
       ELSE
       LET statements == [k \in 1..Len(seq_of_parameters[2]) |->
                             _substitute_params(operation[2], seq_of_parameters[2][k][2])]
           request == ExecuteRequest(statements)
       IN
       \E payload \in responses :
       LET cs == [c EXCEPT !.payload = Some(payload)] IN
       IF Failed(payload)
       THEN Rejected(cs, <<request>>, Raise(payload.exception, "request"))
       ELSE
       /\ call' = cs
       /\ sent' = <<request>>
       /\ rows' = Some(<<>>)
       /\ rownumber' = 0
       /\ rowcount' = ManyRowsAffected(payload)
       /\ ret' = Return("None", None)
       /\ returned' = <<>>
       /\ UNCHANGED <<description, lastrowid, pc, out, connection>>

\* fetchone's guard: self._rows is None or self.rownumber >= len(self._rows)
NoMoreRows == rows = None \/ rownumber >= Len(rows[1])

\* a fetchone that hands out the first row again instead of the current one
FetchOneValue_FirstRow == IF NoMoreRows THEN None ELSE Some(rows[1][1])

\* what a fetchone returns in the current state: None, or the row as <<row>>
FetchOneValue == IF NoMoreRows THEN None ELSE Some(rows[1][rownumber + 1])

\* fetchone's effect on the cursor
FetchOneEffect ==
    /\ rownumber' = IF NoMoreRows THEN rownumber ELSE rownumber + 1
    /\ returned' = Append(returned, FetchOneValue)
    /\ UNCHANGED <<rows, rowcount, description, lastrowid>>

\* Cursor.fetchone()
fetchone ==
    /\ pc = "idle"
    /\ Len(returned) < MaxFetch
    /\ FetchOneEffect
    /\ call' = [name |-> "fetchone"]
    /\ sent' = <<>>
    /\ ret' = Return("row", FetchOneValue)
    /\ UNCHANGED <<pc, out, connection>>

\* fetchall's and __iter__'s loop condition
MoreToFetch == rownumber < rowcount

\* Cursor.fetchall(): entry, rows = []
fetchall ==
    /\ pc = "idle"
    /\ pc' = "fetchall"
    /\ out' = <<>>
    /\ call' = [name |-> "fetchall"]
    /\ sent' = <<>>
    /\ UNCHANGED <<cursor, ret, returned, connection>>

\* one pass of fetchall's loop: rows.append(self.fetchone())
FetchAllStep ==
    /\ pc = "fetchall"
    /\ MoreToFetch
    /\ Len(returned) < MaxFetch
    /\ FetchOneEffect
    /\ out' = Append(out, FetchOneValue)
    /\ UNCHANGED <<sent, call, ret, pc, connection>>

\* fetchall leaves its loop: return rows
FetchAllReturn ==
    /\ pc = "fetchall"
    /\ ~MoreToFetch
    /\ pc' = "idle"
    /\ ret' = Return("list", out)
    /\ out' = <<>>
    /\ UNCHANGED <<cursor, sent, call, returned, connection>>

\* Cursor.__iter__(): next() on a generator it made runs one pass of its
\* loop, up to the yield or to the end of the generator. The generator holds
\* no state of its own, so a pass can follow any other call on the cursor.
IterNext ==
    /\ pc = "idle"
    /\ call' = [name |-> "__next__"]
    /\ sent' = <<>>
    /\ UNCHANGED <<pc, out, connection>>
    /\ IF MoreToFetch
       THEN /\ Len(returned) < MaxFetch
            /\ FetchOneEffect
            /\ ret' = Return("yield", FetchOneValue)
       ELSE /\ ret' = Raise("StopIteration", None)
            /\ UNCHANGED <<cursor, returned>>

\* Cursor.close()
close ==
    /\ pc = "idle"
    /\ rows' = None
    /\ call' = [name |-> "close"]
    /\ sent' = <<>>
    /\ ret' = Return("None", None)
    /\ UNCHANGED <<rownumber, rowcount, description, lastrowid, pc, out, returned,
                   connection>>

\* an unsupported operation that degrades silently: it returns None
Unsupported_Silent(c) ==
    /\ pc = "idle"
    /\ call' = c
    /\ sent' = <<>>
    /\ ret' = Return("None", None)
    /\ UNCHANGED <<cursor, pc, out, returned, connection>>

\* an operation the driver does not support: it raises and does nothing else
Unsupported(c) ==
    /\ pc = "idle"
    /\ call' = c
    /\ sent' = <<>>
    /\ ret' = Raise("NotImplementedError", "self")
    /\ UNCHANGED <<cursor, pc, out, returned, connection>>

\* Cursor.fetchmany(size=None): size defaults to arraysize, then it raises
fetchmany(size) == Unsupported([name |-> "fetchmany", size |-> size])

\* Cursor.setinputsizes(sizes)
setinputsizes == Unsupported([name |-> "setinputsizes"])

\* Cursor.setoutputsize(size, column=None)
setoutputsize == Unsupported([name |-> "setoutputsize"])

\* Cursor.scroll(value, mode='relative')
scroll == Unsupported([name |-> "scroll"])

\* Cursor.next()
next == Unsupported([name |-> "next"])

\* ------------------------------------------------------------------ inputs
\* SQL texts handed to execute and executemany
SqlSelect == <<"S", "E", "L", "E", "C", "T", " ", "1">>
SqlSelectQ == <<"s", "e", "l", "e", "c", "t", " ", "?">>
SqlPragma == <<"\t", "P", "r", "a", "g", "m", "a", " ", "x">>
SqlUpdate == <<"U", "P", "D", "A", "T", "E", " ", "t">>
SqlUpdateQQ == <<"u", "p", "d", "a", "t", "e", " ", "t", " ", "?", " ", "?">>
SqlInsert == <<"I", "N", "S", "E", "R", "T", " ", "x">>
SqlInsertQ == <<" ", "i", "n", "s", "e", "r", "t", " ", "?">>
SqlSelected == <<"S", "E", "L", "E", "C", "T", "E", "D">>
SqlOnlyQ == <<"?">>
SqlEmpty == <<>>
SqlBlank == <<" ", "\n">>

\* a non-string `operation` argument: the int 42
NotAString == PyInt(<<"4", "2">>)

\* all sequences over S of length at most n
SeqsUpTo(S, n) == UNION {[1..k -> S] : k \in 0..n}

\* result items of a response, as rqlite sends them
ItemError1 == [error |-> "no such table: t"]
ItemError2 == [error |-> "near x: syntax error", rows_affected |-> 1]
ItemAffected0 == [rows_affected |-> 0]
ItemAffected1 == [rows_affected |-> 1]
ItemInsert5 == [last_insert_id |-> 5, rows_affected |-> 1]
ItemInsert7 == [last_insert_id |-> 7, rows_affected |-> 1]
ItemTime == [time |-> 0]
ItemRows2 == [columns |-> <<"id">>, types |-> <<"integer">>,
              values |-> <<<<1>>, <<2>>>>]
ItemRows1 == [columns |-> <<"id", "n">>, types |-> <<"integer", "integer">>,
              values |-> <<<<3, 4>>>>, rows_affected |-> 2]
ItemRows0 == [columns |-> <<"id">>, types |-> <<"integer">>]
ItemEmptyValues == [columns |-> <<"id">>, types |-> <<"integer">>, values |-> <<>>]
ItemNoTypes == [columns |-> <<"id">>, values |-> <<<<1>>, <<2>>>>]
ItemShort == [columns |-> <<"id", "n">>, types |-> <<"integer">>,
              values |-> <<<<3, 4>>, <<5>>>>]

\* the decoded responses whose result items come from `items`, a response
\* without a results array, and a response whose delivery fails
Responses(items) ==
    {[time |-> 0], [exception |-> "IOError"]}
    \cup {[results |-> r, time |-> 0] : r \in SeqsUpTo(items, MaxItems)}

\* ---------------------------------------------------------- specifications
\* Cursor traversal: statements without parameters, responses that carry
\* result sets, affected-row counts and insert ids
TraversalOps == {PyStr(SqlSelect), PyStr(SqlUpdate), PyStr(SqlInsert)}
TraversalResponses ==
    {[time |-> 0], [exception |-> "IOError"]}
    \cup {[results |-> r, time |-> 0] :
            r \in {<<>>, <<ItemAffected0>>, <<ItemAffected1>>, <<ItemInsert5>>,
                   <<ItemRows2>>, <<ItemRows1>>, <<ItemRows0>>,
                   <<ItemAffected1, ItemRows2>>, <<ItemRows1, ItemError1>>,
                   <<ItemEmptyValues>>, <<ItemNoTypes>>, <<ItemShort>>}}
NoParameters == PyTuple(<<PyTuple(<<>>)>>)
\* calls execute rejects before it sends anything: an operation that is not
\* a string, and one placeholder given two parameters
RejectedCalls ==
    {<<NotAString, PyNone>>,
     <<PyStr(SqlSelectQ), PyTuple(<<PyInt(<<"1">>), PyInt(<<"1">>)>>)>>}
\* fetchmany's size argument: left out, or 2
FetchManySizes == {None, Some(2)}

Next ==
    \/ \E o \in TraversalOps : execute(o, PyNone, TraversalResponses)
    \/ \E a \in RejectedCalls : execute(a[1], a[2], TraversalResponses)
    \/ executemany(PyStr(SqlInsert), NoParameters, TraversalResponses)
    \/ fetchone
    \/ fetchall
    \/ FetchAllStep
    \/ FetchAllReturn
    \/ IterNext
    \/ close
    \/ \E size \in FetchManySizes : fetchmany(size)
    \/ setinputsizes
    \/ setoutputsize
    \/ scroll
    \/ next

Spec == Init /\ [][Next]_vars

\* Response interpretation: responses of up to MaxItems result items, with
\* and without error items, affected-row counts and result sets
ResponseOps == {PyStr(SqlSelect), PyStr(SqlUpdate), PyStr(SqlInsert)}
ResponseItems == {ItemError1, ItemError2, ItemRows1, ItemTime}
AllResponses == Responses(ResponseItems)

NextResponse ==
    \/ \E o \in ResponseOps : execute(o, PyNone, AllResponses)
    \/ executemany(PyStr(SqlInsert), NoParameters, AllResponses)

SpecResponse == Init /\ [][NextResponse]_vars

\* Argument validation and dispatch: SQL texts with and without
\* placeholders, words and leading whitespace, parameter sequences of up to
\* MaxParams values and batches of up to MaxBatch parameter sequences
DispatchOps ==
    {PyStr(SqlSelect), PyStr(SqlSelectQ), PyStr(SqlPragma), PyStr(SqlUpdate),
     PyStr(SqlUpdateQQ), PyStr(SqlInsertQ), PyStr(SqlSelected), PyStr(SqlOnlyQ),
     PyStr(SqlEmpty), PyStr(SqlBlank), NotAString}
DispatchParameters ==
    {PyNone} \cup {PyTuple(t) : t \in SeqsUpTo({PyInt(<<"1">>), PyStr(<<"a", "?">>)}, MaxParams)}
BatchOps == {PyStr(SqlInsertQ), PyStr(SqlUpdateQQ), PyStr(SqlUpdate), NotAString}
BatchParameters ==
    {PyNone} \cup
    {PyTuple(b) : b \in SeqsUpTo({PyTuple(t) : t \in SeqsUpTo({PyInt(<<"1">>)}, MaxParams)},
                                 MaxBatch)}
DispatchResponses ==
    {[exception |-> "IOError"], [results |-> <<ItemRows2>>, time |-> 0]}

NextDispatch ==
    \/ \E o \in DispatchOps, p \in DispatchParameters :
          execute(o, p, DispatchResponses)
    \/ \E o \in BatchOps, b \in BatchParameters :
          executemany(o, b, DispatchResponses)

SpecDispatch == Init /\ [][NextDispatch]_vars

\* Responses of several result items: result sets, insert ids and
\* affected-row counts in every order, for a read, an UPDATE and an INSERT
MultiOps == {PyStr(SqlSelect), PyStr(SqlUpdate), PyStr(SqlInsert)}
MultiItems == {ItemInsert5, ItemInsert7, ItemRows2, ItemRows1}
MultiResponses == Responses(MultiItems)

NextMulti == \E o \in MultiOps : execute(o, PyNone, MultiResponses)

SpecMulti == Init /\ [][NextMulti]_vars

\* ------------------------------------------------------------------ claims
\* helpers of the claims: what a response says, read off the response itself
HasResults(payload) == "results" \in DOMAIN payload

\* the positions of the result items that carry `key`
Carrying(results, key) == {i \in 1..Len(results) : key \in DOMAIN results[i]}

Last(S) == CHOOSE i \in S : \A j \in S : j <= i
First(S) == CHOOSE i \in S : \A j \in S : i <= j

\* the most recent call was `name` and it returned
Returned(name) == call.name = name /\ ret.kind = "return"

\* the command keyword of the most recent execute (statements of Spec take
\* no parameters)
CallCommand == _get_sql_command(call.operation[2])

\* C1: in every reachable cursor state a fetchall, and an iteration to the
\* end, terminates. Both loops run while rownumber < rowcount and only a
\* fetchone that hands out a row changes either attribute, so they terminate
\* from every reachable state exactly when, in every reachable state, the
\* loop condition implies that fetchone has a row to hand out.
C1_FetchAllTerminates == MoreToFetch => ~NoMoreRows

\* C2: after an execute that materialized n rows, the k-th fetchone returns
\* row k-1 for k <= n, advancing rownumber by one, and None afterwards,
\* leaving rownumber at n; no fetchone raises. (rows # None: the cursor has
\* not been closed since.)
C2_FetchOneSequence ==
    /\ rows # None =>
          LET n == Len(rows[1]) IN
          /\ \A k \in 1..Len(returned) :
                returned[k] = IF k <= n THEN Some(rows[1][k]) ELSE None
          /\ rownumber = Min(Len(returned), n)
    /\ call.name = "fetchone" =>
          /\ ret.kind = "return"
          /\ returned # <<>>
          /\ ret.value = returned[Len(returned)]

\* C2 witness: a third fetchone after a two-row result set returned None
C2_Witness ==
    /\ call.name = "fetchone"
    /\ rows # None
    /\ Len(rows[1]) = 2
    /\ Len(returned) = 3
    /\ returned[2] # None
    /\ ret.value = None

\* the description the response of the most recent call stands for
ExpectedDescription ==
    LET payload == call.payload[1] IN
    IF call.name = "executemany" \/ ~HasResults(payload)
       \/ Carrying(payload.results, "columns") = {}
    THEN None
    ELSE LET item == payload.results[Last(Carrying(payload.results, "columns"))]
         IN  Some([i \in 1..Len(item.columns) |->
                    <<item.columns[i], None, None, None, None, None, None>>])

\* C3: after every execute or executemany that returns, description is that
\* of this call's result set, None when the call produced none
C3_DescriptionOfLastCall ==
    (Returned("execute") \/ Returned("executemany")) =>
        description = ExpectedDescription

\* C4: after an execute, lastrowid is the last_insert_id of the response when
\* the command is INSERT and an item carries one, and None in every other case
C4_LastRowIdOfLastExecute ==
    Returned("execute") =>
        LET payload == call.payload[1]
            ids == IF HasResults(payload)
                   THEN Carrying(payload.results, "last_insert_id") ELSE {}
        IN  lastrowid =
                IF CallCommand = <<"I","N","S","E","R","T">> /\ ids # {}
                THEN Some(payload.results[Last(ids)].last_insert_id)
                ELSE None

RECURSIVE SumAffectedAt(_, _)
SumAffectedAt(results, S) ==
    IF S = {} THEN 0
    ELSE LET i == CHOOSE j \in S : TRUE
         IN  results[i].rows_affected + SumAffectedAt(results, S \ {i})

\* the sum of rows_affected over the result items that carry it
SumAffected(results) == SumAffectedAt(results, Carrying(results, "rows_affected"))

\* the most recent call issued its request and got a decoded response with a
\* results array
GotResults ==
    /\ call.name \in {"execute", "executemany"}
    /\ call.payload # None
    /\ ~Failed(call.payload[1])
    /\ HasResults(call.payload[1])

\* the number of '?' in a text
Placeholders(text) == Cardinality({i \in 1..Len(text) : text[i] = "?"})

\* the number of parameters supplied (None supplies none)
Supplied(parameters) == IF parameters[1] = "tuple" THEN Len(parameters[2]) ELSE 0

MismatchError == Raise("ProgrammingError", "incorrect number of parameters")

\* C5: execute, and executemany for each of its parameter sequences, fails
\* with the parameter-count mismatch error, without any request, whenever the
\* number of placeholders differs from the number of parameters supplied
C5_MismatchRejected ==
    /\ (/\ call.name = "execute"
        /\ IsString(call.operation)
        /\ Placeholders(call.operation[2]) # Supplied(call.parameters))
       => (ret = MismatchError /\ sent = <<>>)
    /\ (/\ call.name = "executemany"
        /\ IsString(call.operation)
        /\ call.parameters[1] = "tuple"
        /\ \E k \in 1..Len(call.parameters[2]) :
              Placeholders(call.operation[2]) # Supplied(call.parameters[2][k]))
       => (ret = MismatchError /\ sent = <<>>)

\* C6: after an execute whose response has a results array, rowcount is the
\* sum of rows_affected over all result items when the command is UPDATE;
\* for every other command it is the number of materialized rows, whatever
\* rows_affected the response carries
C6_RowCountPolicy ==
    Returned("execute") =>
        IF CallCommand = <<"U","P","D","A","T","E">>
        THEN GotResults => rowcount = SumAffected(call.payload[1].results)
        ELSE rowcount = Len(rows[1])

\* C6 witness: an UPDATE answered with one row and rows_affected 2
C6_Witness ==
    /\ Returned("execute")
    /\ GotResults
    /\ CallCommand = <<"U","P","D","A","T","E">>
    /\ rowcount = 2
    /\ Len(rows[1]) = 1

\* C7: after an UPDATE execute or an executemany, rowcount is -1 whenever no
\* result item carried rows_affected (no results array, an empty one, or
\* items without the field), and 0 only when some item carried it
C7_UnknownAffectedIsMinusOne ==
    (\/ Returned("execute") /\ CallCommand = <<"U","P","D","A","T","E">>
     \/ Returned("executemany")) =>
        LET payload == call.payload[1]
            none == \/ ~HasResults(payload)
                    \/ Carrying(payload.results, "rows_affected") = {}
        IN  /\ none => rowcount = -1
            /\ rowcount = 0 => ~none

\* C8: an execute whose response has an item with an error field raises Error
\* carrying the first such item, and no item of the response reaches the
\* cursor: rows, rownumber, rowcount, description and lastrowid stay as they
\* were
C8_FirstErrorAborts ==
    [][(/\ call'.name = "execute"
        /\ call'.payload # None
        /\ ~Failed(call'.payload[1])
        /\ HasResults(call'.payload[1])
        /\ Carrying(call'.payload[1].results, "error") # {})
       => LET results == call'.payload[1].results
          IN  /\ ret' = Raise("Error", Some(results[First(Carrying(results, "error"))]))
              /\ Len(sent') = 1
              /\ cursor' = cursor]_vars

\* C8 witness: an execute on a fresh cursor answered with a result set
\* followed by an error item raised that error and materialized nothing
C8_Witness ==
    /\ call.name = "execute"
    /\ GotResults
    /\ call.payload[1].results = <<ItemRows1, ItemError2>>
    /\ ret = Raise("Error", Some(ItemError2))
    /\ rows = None
    /\ rowcount = -1

\* C9: an executemany whose response has a results array returns whatever
\* error items it holds; rowcount is the sum of rows_affected over every item,
\* the row set is empty and rownumber is 0
C9_ManyErrorsDoNotAbort ==
    (call.name = "executemany" /\ GotResults) =>
        /\ ret = Return("None", None)
        /\ rowcount = SumAffected(call.payload[1].results)
        /\ rows = Some(<<>>)
        /\ rownumber = 0

\* C9 witness: the error item came first and carried a count itself; the item
\* after it was still counted
C9_Witness ==
    /\ call.name = "executemany"
    /\ GotResults
    /\ call.payload[1].results = <<ItemError2, ItemRows1>>
    /\ ret.kind = "return"
    /\ rowcount = 3

\* the SQL text execute works on after substitution
CallSql ==
    IF Truthy(call.parameters)
    THEN _substitute_params(call.operation[2], call.parameters[2])
    ELSE call.operation[2]

\* the first whitespace-delimited token of the text, uppercased, is SELECT or
\* PRAGMA
IsRead(sql) ==
    /\ ~NoWord(sql)
    /\ _get_sql_command(sql) \in {<<"S","E","L","E","C","T">>, <<"P","R","A","G","M","A">>}

\* C10: an execute that passes argument validation issues exactly one
\* request: GET /db/query when the first token of the substituted SQL is
\* SELECT or PRAGMA, else POST /db/execute?transaction with the SQL as a
\* one-element JSON array
C10_OneRequestPerExecute ==
    (/\ call.name = "execute"
     /\ IsString(call.operation)
     /\ ret # MismatchError) =>
        sent = IF IsRead(CallSql)
               THEN <<QueryRequest(CallSql)>>
               ELSE <<ExecuteRequest(<<CallSql>>)>>

\* the operations the driver declares and does not support
UnsupportedNames == {"fetchmany", "setinputsizes", "setoutputsize", "scroll", "next"}

\* C11: a call of fetchmany, setinputsizes, setoutputsize, scroll or next, in
\* whatever state the cursor is, raises NotImplementedError, leaves rows,
\* rownumber, rowcount, description, lastrowid and the connection as they
\* were and issues no request.
C11_UnsupportedRaise ==
    [][call'.name \in UnsupportedNames =>
         /\ ret'.kind = "raise"
         /\ ret'.type = "NotImplementedError"
         /\ cursor' = cursor
         /\ connection' = connection
         /\ sent' = <<>>]_vars

\* scroll raised in the middle of a traversal: one row of two handed out
C11_Witness ==
    /\ call.name = "scroll"
    /\ ret = Raise("NotImplementedError", "self")
    /\ rows # None
    /\ Len(rows[1]) = 2
    /\ rownumber = 1
    /\ lastrowid # None

\* the attributes a cursor made by Cursor.__init__ has after the execute
\* recorded in `c` returned
FreshCursorAfter(c) ==
    LET command == _get_sql_command(c.operation[2])
        locals == ExecuteLocals(c.payload[1])
        newrows == IF locals.payload_rows = None THEN <<>>
                   ELSE Materialize(locals.payload_rows[1])
    IN <<Some(newrows),
         0,
         RowCountPolicy(command, locals.rows_affected, newrows),
         IF locals.payload_rows = None THEN None
         ELSE Some(Description(locals.payload_rows[1].columns)),
         LastRowIdPolicy(command, locals, None)>>

\* C12: close sets only the row buffer to None: it issues no request and
\* leaves the connection, rowcount, rownumber, description and lastrowid as
\* they were; while the buffer is None every fetchone returns None; and an
\* execute on the closed cursor leaves the cursor as the same execute would
\* leave a fresh one (a raising execute leaves both untouched).
C12_CloseDiscardsOnlyRows ==
    [][/\ call'.name = "close" =>
            /\ rows' = None
            /\ sent' = <<>>
            /\ <<connection, rowcount, rownumber, description, lastrowid>>' =
                  <<connection, rowcount, rownumber, description, lastrowid>>
       /\ (rows = None /\ call'.name = "fetchone") =>
            /\ ret' = Return("row", None)
            /\ cursor' = cursor
       /\ (rows = None /\ call'.name = "execute") =>
            /\ connection' = connection
            /\ cursor' = IF ret'.kind = "raise" THEN cursor
                         ELSE FreshCursorAfter(call')]_vars

\* the values handed out since the row buffer was last set are its rows in
\* index order, each at most once: the i-th value, when not None, is row i
InIndexOrder ==
    \A i \in 1..Len(returned) :
        returned[i] # None => (i <= Len(rows[1]) /\ returned[i] = Some(rows[1][i]))

\* C13: while the cursor has a row buffer, 0 <= rownumber <= number of rows;
\* the non-None values handed out by fetchone, fetchall and iteration since
\* the last execute or executemany are rows of its result set, each at most
\* once and in increasing index order; and no None is placed in the list
\* fetchall builds or yielded by iteration.
C13_TraversalWithinRows ==
    /\ rows # None =>
         /\ 0 <= rownumber
         /\ rownumber <= Len(rows[1])
         /\ InIndexOrder
    /\ \A i \in 1..Len(out) : out[i] # None
    /\ ret.type = "list" => \A i \in 1..Len(ret.value) : ret.value[i] # None
    /\ ret.type = "yield" => ret.value # None

\* C14: an execute that raises, whatever the reason (an operation that is
\* not a string, a parameter-count mismatch, an error item in the response,
\* a failed request), leaves rows, rownumber, rowcount, description and
\* lastrowid exactly as they were, so the rows of the previous result set
\* stay fetchable from the same position.
C14_RaisingExecuteKeepsState ==
    [][(call'.name = "execute" /\ ret'.kind = "raise") =>
         /\ cursor' = cursor
         /\ FetchOneValue' = FetchOneValue]_vars

\* the exceptions the claim lists
C14_Raised(type) ==
    /\ call.name = "execute"
    /\ ret.kind = "raise"
    /\ ret.type = type

\* an execute raised in the middle of a traversal of a two-row result set
\* that followed an INSERT: one row handed out, one still to fetch
C14_Witness ==
    /\ C14_Raised("Error")
    /\ rows # None
    /\ Len(rows[1]) = 2
    /\ rownumber = 1
    /\ rowcount = 2
    /\ description # None
    /\ lastrowid = Some(5)

\* the most recent call was an execute that returned and its response holds
\* an item with columns
SelectedColumns ==
    /\ Returned("execute")
    /\ HasResults(call.payload[1])
    /\ Carrying(call.payload[1].results, "columns") # {}

\* the result item the result set is taken from: the last one with columns
Selected ==
    LET results == call.payload[1].results
    IN  results[Last(Carrying(results, "columns"))]

\* description has one 7-tuple per column of the selected item, in order
DescribesColumns(item) ==
    /\ description # None
    /\ Len(description[1]) = Len(item.columns)
    /\ \A i \in 1..Len(item.columns) :
          /\ Len(description[1][i]) = 7
          /\ description[1][i][1] = item.columns[i]
          /\ \A j \in 2..7 : description[1][i][j] = None

\* row r of the buffer holds the first m values of row r of `values`, each
\* under its column, in column order
HoldsValues(item, r, m) ==
    /\ Len(rows[1][r]) = m
    /\ \A i \in 1..m : rows[1][r][i] = <<item.columns[i], item.values[r][i]>>

\* C15 as stated: when the selected item carries columns, description has
\* one 7-tuple per column in column order, the number of materialized rows
\* is the number of rows of the item's values (zero when values is absent or
\* empty), each row holds one value per column in column order, and the
\* rowcount of a non-UPDATE execute is that number.
C15_RowsOfValues ==
    SelectedColumns =>
        LET item == Selected
            n == IF "values" \in DOMAIN item THEN Len(item.values) ELSE 0
        IN  /\ DescribesColumns(item)
            /\ Len(rows[1]) = n
            /\ \A r \in 1..n : HoldsValues(item, r, Len(item.columns))
            /\ CallCommand # <<"U","P","D","A","T","E">> => rowcount = n

\* C15 amended: the rows are materialized only when the item carries both
\* values and types (zero rows when either is absent or values is empty),
\* and each row holds one value for each of the first m columns, m the
\* smallest of the numbers of columns, of types and of values in that row.
C15_RowsOfValuesAndTypes ==
    SelectedColumns =>
        LET item == Selected
            n == IF "values" \in DOMAIN item /\ "types" \in DOMAIN item
                 THEN Len(item.values) ELSE 0
        IN  /\ DescribesColumns(item)
            /\ Len(rows[1]) = n
            /\ \A r \in 1..n :
                  HoldsValues(item, r, Min(Len(item.columns),
                                           Min(Len(item.types), Len(item.values[r]))))
            /\ CallCommand # <<"U","P","D","A","T","E">> => rowcount = n

\* a SELECT answered with columns and values and no types: no rows, and the
\* columns described
C15_Witness ==
    /\ SelectedColumns
    /\ "values" \in DOMAIN Selected
    /\ "types" \notin DOMAIN Selected
    /\ Selected.values # <<>>
    /\ rows = Some(<<>>)
    /\ rowcount = 0
    /\ description # None

\* the rows and the description are those of result item `item`, whose
\* types and value rows are as long as its columns
ExposesResultSet(item) ==
    /\ DescribesColumns(item)
    /\ rows # None
    /\ Len(rows[1]) = Len(item.values)
    /\ \A r \in 1..Len(item.values) : HoldsValues(item, r, Len(item.columns))

\* C16: after an execute whose response holds several result items, the
\* rows and the description are those of the last item with columns, the
\* id published by an INSERT is the last_insert_id of the last item that
\* carries one, and the count published by an UPDATE is the sum of
\* rows_affected over all items; an item without one of these fields leaves
\* what an earlier item supplied in place.
C16_LastItemWins ==
    (Returned("execute") /\ HasResults(call.payload[1])) =>
        LET results == call.payload[1].results
            withColumns == Carrying(results, "columns")
            withId == Carrying(results, "last_insert_id")
        IN  /\ withColumns # {} => ExposesResultSet(results[Last(withColumns)])
            /\ (CallCommand = <<"I","N","S","E","R","T">> /\ withId # {}) =>
                  lastrowid = Some(results[Last(withId)].last_insert_id)
            /\ CallCommand = <<"U","P","D","A","T","E">> =>
                  rowcount = SumAffected(results)

RECURSIVE Replaced(_, _)
\* the template read left to right, each '?' replaced by the adapted literal
\* of the next parameter and every other character kept
Replaced(template, parameters) ==
    IF template = <<>> THEN <<>>
    ELSE IF Head(template) = "?"
    THEN _adapt_from_python(Head(parameters)) \o Replaced(Tail(template), Tail(parameters))
    ELSE <<Head(template)>> \o Replaced(Tail(template), parameters)

\* a parameter sequence of k >= 1 values for a template of k placeholders
Matching(template, parameters) ==
    /\ Len(parameters) >= 1
    /\ Placeholders(template) = Len(parameters)

\* C17: for a template with k placeholders and a parameter sequence of
\* length k (k >= 1), substitution raises no error and returns the template
\* with the i-th placeholder, counted left to right, replaced by the adapted
\* literal of the i-th parameter and every other piece kept in place. The
\* text it returns is the one execute and executemany put in their request.
C17_SubstitutionInOrder ==
    /\ (/\ call.name = "execute"
        /\ IsString(call.operation)
        /\ call.parameters[1] = "tuple"
        /\ Matching(call.operation[2], call.parameters[2])) =>
            LET sql == Replaced(call.operation[2], call.parameters[2]) IN
            /\ ret.type # "ProgrammingError"
            /\ sent = <<DispatchRequest(_get_sql_command(sql), sql)>>
    /\ (/\ call.name = "executemany"
        /\ IsString(call.operation)
        /\ call.parameters[1] = "tuple"
        /\ call.parameters[2] # <<>>
        /\ \A k \in 1..Len(call.parameters[2]) :
              Matching(call.operation[2], call.parameters[2][k][2])) =>
            /\ ret.type # "ProgrammingError"
            /\ sent = <<ExecuteRequest([k \in 1..Len(call.parameters[2]) |->
                          Replaced(call.operation[2], call.parameters[2][k][2])])>>

\* two placeholders given an integer and a text that itself holds a '?'
C17_Witness ==
    /\ call.name = "execute"
    /\ call.operation = PyStr(SqlUpdateQQ)
    /\ call.parameters = PyTuple(<<PyInt(<<"1">>), PyStr(<<"a", "?">>)>>)
    /\ ret.kind = "return"
    /\ Len(sent) = 1
    /\ sent[1].body = Some(JsonDumps(<<<<"u", "p", "d", "a", "t", "e", " ", "t", " ",
                                        "1", " ", "'", "a", "?", "'">>>>))

====
